---------------------------- MODULE Spec2Model ----------------------------
(***************************************************************************)
(* One tick of World.update (gaming_framework/physics/world.py): PREDICT,  *)
(* BROADPHASE, RESOLVE and COMMIT over a small set of circular bodies.     *)
(*                                                                         *)
(* Numbers are exact rationals <<n, d>> (d > 0, lowest terms); <<0, 0>> is *)
(* the not-a-number that numpy's 0.0 / 0 yields.  Comparisons with it are  *)
(* false, as in IEEE arithmetic.                                           *)
(***************************************************************************)
EXTENDS Integers, Sequences, FiniteSets, TLC

(***************************************************************************)
(* Bounds of the model.                                                    *)
(***************************************************************************)
NumBodies == 3
MaxDeltaTime == 2

Bodies == 1..NumBodies

(***************************************************************************)
(* Exact rational arithmetic.                                              *)
(***************************************************************************)
Abs(i) == IF i < 0 THEN -i ELSE i

Sgn(i) == IF i < 0 THEN -1 ELSE IF i > 0 THEN 1 ELSE 0

RECURSIVE Gcd(_, _)
Gcd(a, b) == IF b = 0 THEN a ELSE Gcd(b, a % b)

NaN == <<0, 0>>

IsNaN(x) == x[2] = 0

RNorm(n, d) ==
    IF d = 0 THEN NaN
    ELSE LET g == Gcd(Abs(n), Abs(d))
             s == Sgn(d)
         IN  <<(s * n) \div g, (s * d) \div g>>

R(i) == <<i, 1>>

RAdd(x, y) == IF IsNaN(x) \/ IsNaN(y) THEN NaN
              ELSE RNorm(x[1] * y[2] + y[1] * x[2], x[2] * y[2])

RNeg(x) == <<-x[1], x[2]>>

RSub(x, y) == RAdd(x, RNeg(y))

RMul(x, y) == IF IsNaN(x) \/ IsNaN(y) THEN NaN
              ELSE RNorm(x[1] * y[1], x[2] * y[2])

\* x / y in float64: a zero divisor raises nothing, 0 / 0 is not-a-number.
RDiv(x, y) == IF IsNaN(x) \/ IsNaN(y) THEN NaN
              ELSE RNorm(x[1] * y[2], x[2] * y[1])

RLt(x, y) == ~IsNaN(x) /\ ~IsNaN(y) /\ x[1] * y[2] < y[1] * x[2]

RLe(x, y) == ~IsNaN(x) /\ ~IsNaN(y) /\ x[1] * y[2] <= y[1] * x[2]

RECURSIVE ISqrtIter(_, _, _)
ISqrtIter(n, lo, hi) ==
    IF lo >= hi THEN lo
    ELSE LET mid == (lo + hi + 1) \div 2
         IN  IF mid <= n \div mid THEN ISqrtIter(n, mid, hi)
             ELSE ISqrtIter(n, lo, mid - 1)

ISqrt(n) == ISqrtIter(n, 0, n)

IsSquare(n) == n >= 0 /\ ISqrt(n) * ISqrt(n) = n

\* np.sqrt on a non-negative number whose root is rational.
RSqrt(x) == IF IsNaN(x) THEN NaN ELSE <<ISqrt(x[1]), ISqrt(x[2])>>

HasExactSqrt(x) == ~IsNaN(x) /\ IsSquare(x[1]) /\ IsSquare(x[2])

(***************************************************************************)
(* Point2D.                                                                *)
(***************************************************************************)
P(x, y) == [x |-> R(x), y |-> R(y)]

VAdd(p, q) == [x |-> RAdd(p.x, q.x), y |-> RAdd(p.y, q.y)]

VSub(p, q) == [x |-> RSub(p.x, q.x), y |-> RSub(p.y, q.y)]

scalar_mult(p, k) == [x |-> RMul(p.x, k), y |-> RMul(p.y, k)]

scalar_div(p, k) == [x |-> RDiv(p.x, k), y |-> RDiv(p.y, k)]


(***************************************************************************)
(* Body: position, speed, mass, bounding circle, flags.  The bodies of a   *)
(* tick are drawn from BodyTemplates.                                      *)
(***************************************************************************)
B(pos, spd, m, r, st, tg) ==
    [position |-> pos, speed |-> spd, mass |-> m, radius |-> r,
     is_static |-> st, is_tangible |-> tg]

BodyTemplates ==
    << B(P(0, 0),   P(5, 0),   1, 5, FALSE, TRUE),
       B(P(20, 0),  P(-5, 0),  1, 5, FALSE, TRUE),
       B(P(8, 0),   P(5, 0),   3, 5, FALSE, TRUE),
       B(P(20, 0),  P(0, 0),   1, 5, TRUE,  TRUE),
       B(P(20, 0),  P(-5, 0),  1, 5, FALSE, FALSE),
       B(P(40, 0),  P(-15, 0), 3, 5, FALSE, TRUE),
       B(P(40, 0),  P(0, 0),   1, 5, FALSE, TRUE),
       B(P(0, 0),   P(3, -4),  1, 5, FALSE, TRUE),
       B(P(12, -16), P(0, 0),  1, 5, TRUE,  FALSE),
       B(P(0, -30), P(0, -5),  1, 5, TRUE,  TRUE),
       B(P(14, -1), P(0, -5),  1, 5, FALSE, TRUE),
       B(P(14, -8), P(0, 0),   1, 5, TRUE,  TRUE) >>

\* The worlds of a tick: NumBodies different templates, inserted into the
\* spatial structure in the order of the list or in the reverse order.
Worlds ==
    {[b \in Bodies |-> BodyTemplates[f[b]]] :
        f \in {g \in [Bodies -> 1..Len(BodyTemplates)] :
                  \/ \A a, b \in Bodies : a < b => g[a] < g[b]
                  \/ \A a, b \in Bodies : a < b => g[a] > g[b]}}

DeltaTimes == {R(t) : t \in 0..MaxDeltaTime}

\* Body.predict_position(dt): the position after dt at the current speed.
predict_position(body, dt) == VAdd(body.position, scalar_mult(body.speed, dt))

\* Body.update(dt): integrates the position from the speed.
update_body(body, dt) == [body EXCEPT !.position = predict_position(body, dt)]

\* Rectangle(top_left, bottom_right).
Rectangle(left, top, right, bottom) ==
    [left |-> left, top |-> top, right |-> right, bottom |-> bottom]

\* The bounding region of a circular body in the spatial structure.
BodyRegion(body) ==
    Rectangle(RSub(body.position.x, R(body.radius)),
              RAdd(body.position.y, R(body.radius)),
              RAdd(body.position.x, R(body.radius)),
              RSub(body.position.y, R(body.radius)))

\* SpatialStructure.query: the bounding regions overlap.
Overlaps(r1, r2) ==
    /\ RLe(r1.left, r2.right) /\ RLe(r2.left, r1.right)
    /\ RLe(r1.bottom, r2.top) /\ RLe(r2.bottom, r1.top)

\* Shape.collides_with on two circles with the given centers.
collides_with(ca, ra, cb, rb) ==
    LET dx == RSub(ca.x, cb.x)
        dy == RSub(ca.y, cb.y)
    IN  RLe(RAdd(RMul(dx, dx), RMul(dy, dy)), R((ra + rb) * (ra + rb)))

(***************************************************************************)
(* World.__calculate_sweept_body                                           *)
(***************************************************************************)
calculate_sweept_body(body, new_pos) ==
    LET top    == RAdd(body.position.y, R(body.radius))
        left   == RSub(body.position.x, R(body.radius))
        bottom == RSub(new_pos.y, R(body.radius))
        right  == RAdd(new_pos.x, R(body.radius))
    IN  Rectangle(left, top, right, bottom)

(***************************************************************************)
(* World.__time_of_collision                                               *)
(***************************************************************************)
TocA(body_a, body_b) ==
    LET dvx == RSub(body_a.speed.x, body_b.speed.x)
        dvy == RSub(body_a.speed.y, body_b.speed.y)
    IN  RAdd(RMul(dvx, dvx), RMul(dvy, dvy))

TocB(body_a, body_b) ==
    LET dx  == RSub(body_a.position.x, body_b.position.x)
        dy  == RSub(body_a.position.y, body_b.position.y)
        dvx == RSub(body_a.speed.x, body_b.speed.x)
        dvy == RSub(body_a.speed.y, body_b.speed.y)
    IN  RMul(R(2), RAdd(RMul(dx, dvx), RMul(dy, dvy)))

TocC(body_a, body_b) ==
    LET dx  == RSub(body_a.position.x, body_b.position.x)
        dy  == RSub(body_a.position.y, body_b.position.y)
        distance == body_a.radius * body_a.radius
                    + 2 * body_a.radius * body_b.radius
                    + body_b.radius * body_b.radius
    IN  RSub(RAdd(RMul(dx, dx), RMul(dy, dy)), R(distance))

TocDelta(body_a, body_b) ==
    LET a == TocA(body_a, body_b)
        b == TocB(body_a, body_b)
        c == TocC(body_a, body_b)
    IN  RSub(RMul(b, b), RMul(R(4), RMul(a, c)))

\* The solver with the sign of b slipped in the earlier root.
time_of_collision_sign_slip(body_a, body_b) ==
    LET a     == TocA(body_a, body_b)
        b     == TocB(body_a, body_b)
        delta == TocDelta(body_a, body_b)
    IN  IF RLt(delta, R(0)) THEN R(-1)
        ELSE LET d  == RSqrt(delta)
                 t1 == RDiv(RSub(b, d), RMul(R(2), a))
                 t2 == RDiv(RAdd(RNeg(b), d), RMul(R(2), a))
             IN  IF RLt(t1, R(0)) /\ RLt(R(0), t2) /\ RLe(b, R(0))
                 THEN R(0)
                 ELSE t1

\* The solver returning the later root.
time_of_collision_later_root(body_a, body_b) ==
    LET a     == TocA(body_a, body_b)
        b     == TocB(body_a, body_b)
        delta == TocDelta(body_a, body_b)
    IN  IF RLt(delta, R(0)) THEN R(-1)
        ELSE LET d  == RSqrt(delta)
                 t1 == RDiv(RSub(RNeg(b), d), RMul(R(2), a))
                 t2 == RDiv(RAdd(RNeg(b), d), RMul(R(2), a))
             IN  IF RLt(t1, R(0)) /\ RLt(R(0), t2) /\ RLe(b, R(0))
                 THEN R(0)
                 ELSE t2

time_of_collision(body_a, body_b) ==
    LET a     == TocA(body_a, body_b)
        b     == TocB(body_a, body_b)
        delta == TocDelta(body_a, body_b)
    IN  IF RLt(delta, R(0)) THEN R(-1)
        ELSE LET d  == RSqrt(delta)
                 t1 == RDiv(RSub(RNeg(b), d), RMul(R(2), a))
                 t2 == RDiv(RAdd(RNeg(b), d), RMul(R(2), a))
             IN  IF RLt(t1, R(0)) /\ RLt(R(0), t2) /\ RLe(b, R(0))
                 THEN R(0)
                 ELSE t1

\* The call reaches the divisions of lines 67-68 with a divisor 2 * a = 0.
DividesByZero(body_a, body_b) ==
    /\ ~RLt(TocDelta(body_a, body_b), R(0))
    /\ RMul(R(2), TocA(body_a, body_b)) = R(0)

(***************************************************************************)
(* The step state the private methods of World work on:                    *)
(*   bodies   the bodies of spatial_struct, by identity                    *)
(*   moving   _moving_bodies, in the dict's insertion order                *)
(*   sweept   _sweept_bodies, swept proxy identity -> body                 *)
(*   mstruct  _movement_spatial_struct, the set of swept proxies           *)
(*   next_id  the identity the next swept proxy gets                       *)
(*   log      what the methods did to bodies, in order                     *)
(***************************************************************************)
InMoving(moving, body) == \E i \in 1..Len(moving) : moving[i].body = body

MovingRecord(moving, body) ==
    moving[CHOOSE i \in 1..Len(moving) : moving[i].body = body]

MovingSet(moving) == {moving[i].body : i \in 1..Len(moving)}

\* __remove_moving_body leaving the swept proxy in the Movement Index.
remove_moving_body_keeps_proxy(w, body) ==
    IF ~InMoving(w.moving, body) THEN w
    ELSE LET sweept_body == MovingRecord(w.moving, body).sweept_body
             Keep(rec)   == rec.body # body
         IN  [w EXCEPT
                !.moving  = SelectSeq(w.moving, Keep),
                !.sweept  = [k \in (DOMAIN w.sweept) \ {sweept_body.id}
                                |-> w.sweept[k]],
                !.log     = Append(@, [op |-> "remove", body |-> body])]

\* World.__remove_moving_body
remove_moving_body(w, body) ==
    IF ~InMoving(w.moving, body) THEN w
    ELSE LET sweept_body == MovingRecord(w.moving, body).sweept_body
             Keep(rec)   == rec.body # body
         IN  [w EXCEPT
                !.moving  = SelectSeq(w.moving, Keep),
                !.sweept  = [k \in (DOMAIN w.sweept) \ {sweept_body.id}
                                |-> w.sweept[k]],
                !.mstruct = w.mstruct \ {sweept_body},
                !.log     = Append(@, [op |-> "remove", body |-> body])]

\* dict[key] = value: in place for a key the dict holds, else at the end.
DictSet(moving, rec) ==
    IF InMoving(moving, rec.body)
    THEN [i \in 1..Len(moving) |->
             IF moving[i].body = rec.body THEN rec ELSE moving[i]]
    ELSE Append(moving, rec)

\* The insertion of a moving record, lines 94-97.
InsertMoving(w, body, new_pos, delta_time) ==
    LET sweept_body ==
            [id    |-> w.next_id,
             shape |-> calculate_sweept_body(w.bodies[body], new_pos)]
    IN  [w EXCEPT
           !.moving  = DictSet(w.moving,
                          [body        |-> body,
                           start       |-> w.bodies[body].position,
                           new_pos     |-> new_pos,
                           sweept_body |-> sweept_body]),
           !.sweept  = (sweept_body.id :> body) @@ w.sweept,
           !.mstruct = w.mstruct \cup {sweept_body},
           !.next_id = w.next_id + 1,
           !.log     = Append(@, [op |-> "predict", body |-> body,
                                  dt |-> delta_time])]

\* __predict_movement without the is_static test.
predict_movement_static_too(w, body, delta_time) ==
    LET new_pos == predict_position(w.bodies[body], delta_time)
    IN  IF new_pos = w.bodies[body].position THEN w
        ELSE InsertMoving(w, body, new_pos, delta_time)

\* __predict_movement without the unchanged-position test.
predict_movement_unmoved_too(w, body, delta_time) ==
    IF w.bodies[body].is_static THEN w
    ELSE InsertMoving(w, body,
                      predict_position(w.bodies[body], delta_time),
                      delta_time)

\* World.__predict_movement
predict_movement(w, body, delta_time) ==
    IF w.bodies[body].is_static THEN w
    ELSE LET new_pos == predict_position(w.bodies[body], delta_time)
         IN  IF new_pos = w.bodies[body].position THEN w
             ELSE InsertMoving(w, body, new_pos, delta_time)

\* World.__handle_contact
handle_contact(w, body_a, body_b, current_time, end_time) ==
    LET w1 == remove_moving_body(w, body_a)
        w2 == remove_moving_body(w1, body_b)
        remaining_time == RSub(end_time, current_time)
        w3 == predict_movement(w2, body_a, remaining_time)
    IN  predict_movement(w3, body_b, remaining_time)

\* The speed assignments without the is_static tests.
AssignSpeedsUnguarded(bodies, body_a, body_b, v1, v2) ==
    [bodies EXCEPT ![body_a].speed = v1, ![body_b].speed = v2]

\* The speed assignments of World.__update_body_forces.
AssignSpeeds(bodies, body_a, body_b, v1, v2) ==
    LET b1 == IF ~bodies[body_a].is_static
              THEN [bodies EXCEPT ![body_a].speed = v1] ELSE bodies
    IN  IF ~b1[body_b].is_static
        THEN [b1 EXCEPT ![body_b].speed = v2] ELSE b1

\* v1 with the sign of its exchange term slipped.
ExchangeV1Slip(a, b) ==
    scalar_div(
        VAdd(VAdd(scalar_mult(a.speed, R(a.mass)),
                  scalar_mult(b.speed, R(b.mass))),
             scalar_mult(VSub(a.speed, b.speed), R(b.mass))),
        R(a.mass + b.mass))

\* v1 of World.__update_body_forces, lines 146-150.
ExchangeV1(a, b) ==
    scalar_div(
        VAdd(VAdd(scalar_mult(a.speed, R(a.mass)),
                  scalar_mult(b.speed, R(b.mass))),
             scalar_mult(VSub(b.speed, a.speed), R(b.mass))),
        R(a.mass + b.mass))

\* v2 of World.__update_body_forces, lines 151-155.
ExchangeV2(a, b) ==
    scalar_div(
        VAdd(VAdd(scalar_mult(a.speed, R(a.mass)),
                  scalar_mult(b.speed, R(b.mass))),
             scalar_mult(VSub(a.speed, b.speed), R(b.mass))),
        R(a.mass + b.mass))

\* World.__update_body_forces
update_body_forces(w, body_a, body_b) ==
    LET v1 == ExchangeV1(w.bodies[body_a], w.bodies[body_b])
        v2 == ExchangeV2(w.bodies[body_a], w.bodies[body_b])
    IN  [w EXCEPT
           !.bodies = AssignSpeeds(w.bodies, body_a, body_b, v1, v2),
           !.log    = Append(@, [op |-> "forces", body |-> body_a,
                                 other |-> body_b])]

\* Body.update(dt) on a body of the world.
UpdateBody(w, body, dt) ==
    [w EXCEPT !.bodies[body] = update_body(w.bodies[body], dt),
              !.log = Append(@, [op |-> "update", body |-> body, dt |-> dt])]

\* Body.handle_collision(other): the collision-response callback.
HandleCollision(w, body, other) ==
    [w EXCEPT !.log = Append(@, [op |-> "handle_collision", body |-> body,
                                 other |-> other])]

\* The small fixed epsilon of a zero-time contact, 1e-2.
TimeDiff(toc) ==
    IF toc = R(0) THEN RNorm(1, 100) ELSE R(0)

\* The branch of World.__resolve_collision taken when both are tangible.
PhysicalResponse(w, body_a, body_b, toc, current_time, end_time) ==
    LET time_diff == TimeDiff(toc)
        w1 == UpdateBody(w, body_a, RSub(current_time, time_diff))
        w2 == UpdateBody(w1, body_b, RSub(current_time, time_diff))
        w3 == update_body_forces(w2, body_a, body_b)
    IN  handle_contact(w3, body_a, body_b, current_time, end_time)

\* __resolve_collision answering every contact physically, tangible or not.
resolve_collision_always(w, body_a, body_b, toc, current_time, end_time) ==
    LET w1 == PhysicalResponse(w, body_a, body_b, toc, current_time, end_time)
        w2 == HandleCollision(w1, body_a, body_b)
    IN  HandleCollision(w2, body_b, body_a)

\* __resolve_collision notifying only the first body.
resolve_collision_one_sided(w, body_a, body_b, toc, current_time, end_time) ==
    LET do_handle_contact == /\ w.bodies[body_a].is_tangible
                             /\ w.bodies[body_b].is_tangible
        w1 == IF do_handle_contact
              THEN PhysicalResponse(w, body_a, body_b, toc,
                                    current_time, end_time)
              ELSE w
    IN  HandleCollision(w1, body_a, body_b)

\* World.__resolve_collision
resolve_collision(w, body_a, body_b, toc, current_time, end_time) ==
    LET do_handle_contact == /\ w.bodies[body_a].is_tangible
                             /\ w.bodies[body_b].is_tangible
        w1 == IF do_handle_contact
              THEN PhysicalResponse(w, body_a, body_b, toc,
                                    current_time, end_time)
              ELSE w
        w2 == HandleCollision(w1, body_a, body_b)
    IN  HandleCollision(w2, body_b, body_a)

\* The narrow-phase test of World.__check_collision, lines 190-199.
NarrowPhase(w, body_a, body_b, toc) ==
    LET a == w.bodies[body_a]
        b == w.bodies[body_b]
        center_a == IF InMoving(w.moving, body_a) /\ RLt(R(0), toc)
                    THEN predict_position(a, toc)
                    ELSE a.position
        center_b == IF InMoving(w.moving, body_b) /\ RLt(R(0), toc)
                    THEN predict_position(b, toc)
                    ELSE b.position
    IN  collides_with(center_a, a.radius, center_b, b.radius)

\* World.__check_collision
check_collision(w, body_a, body_b, toc, current_time, end_time) ==
    IF NarrowPhase(w, body_a, body_b, toc)
    THEN resolve_collision(w, body_a, body_b, toc,
                           current_time, end_time)
    ELSE w

(***************************************************************************)
(* Broad phase.  BodyPair(a, b) is an unordered pair: equality does not    *)
(* depend on the order of its two bodies.  The candidate queue is the heap *)
(* of (toc, pair) entries; q.calls lists the pairs handed to               *)
(* __push_to_collision_candidates, pushed or not.                          *)
(***************************************************************************)
BodyPair(body_a, body_b) == [body_a |-> body_a, body_b |-> body_b]

PairEq(p, q) == {p.body_a, p.body_b} = {q.body_a, q.body_b}

PairIn(p, pairs) == \E i \in 1..Len(pairs) : PairEq(p, pairs[i])

RECURSIVE SortedSeq(_)
SortedSeq(S) ==
    IF S = {} THEN <<>>
    ELSE LET m == CHOOSE x \in S : \A y \in S : x <= y
         IN  <<m>> \o SortedSeq(S \ {m})

\* __push_to_collision_candidates without the range test.
push_to_collision_candidates_unfiltered(q, bodies, pair, delta_time, start_time) ==
    LET toc == time_of_collision(bodies[pair.body_a], bodies[pair.body_b])
    IN  [heap  |-> Append(q.heap, [toc |-> toc, pair |-> pair]),
         calls |-> Append(q.calls, pair)]

\* World.__push_to_collision_candidates
push_to_collision_candidates(q, bodies, pair, delta_time, start_time) ==
    LET toc == time_of_collision(bodies[pair.body_a], bodies[pair.body_b])
    IN  [heap  |-> IF RLe(R(0), toc) /\ RLe(toc, RAdd(start_time, delta_time))
                   THEN Append(q.heap, [toc |-> toc, pair |-> pair])
                   ELSE q.heap,
         calls |-> Append(q.calls, pair)]

\* The loop body of lines 110-112 and 124-126 over the generated candidates.
RECURSIVE PushDistinct(_, _, _, _, _, _)
PushDistinct(q, bodies, candidates, pairs, delta_time, start_time) ==
    IF candidates = <<>> THEN q
    ELSE LET candidate == Head(candidates)
         IN  IF ~PairIn(candidate, pairs)
             THEN PushDistinct(
                      push_to_collision_candidates(q, bodies, candidate,
                                                   delta_time, start_time),
                      bodies, Tail(candidates), Append(pairs, candidate),
                      delta_time, start_time)
             ELSE PushDistinct(q, bodies, Tail(candidates), pairs,
                               delta_time, start_time)

\* World.__query_collisions_with_moving_bodies
query_collisions_with_moving_bodies(q, w, body, delta_time, start_time) ==
    LET sweept_body == MovingRecord(w.moving, body).sweept_body
        found == {sb \in w.mstruct : Overlaps(sb.shape, sweept_body.shape)}
        ids   == {sb.id : sb \in {x \in found :
                                     /\ x # sweept_body
                                     /\ body # w.sweept[x.id]}}
        order == SortedSeq(ids)
        candidates == [i \in 1..Len(order) |->
                          BodyPair(body, w.sweept[order[i]])]
    IN  PushDistinct(q, w.bodies, candidates, <<>>, delta_time, start_time)

\* World.__query_collisions_with_static_bodies
query_collisions_with_static_bodies(q, w, body, delta_time, start_time) ==
    LET sweept_body == MovingRecord(w.moving, body).sweept_body
        found == {b \in DOMAIN w.bodies :
                     Overlaps(BodyRegion(w.bodies[b]), sweept_body.shape)}
        order == SortedSeq({b \in found : ~InMoving(w.moving, b)})
        candidates == [i \in 1..Len(order) |-> BodyPair(body, order[i])]
    IN  PushDistinct(q, w.bodies, candidates, <<>>, delta_time, start_time)

\* World.__update_collision_candidates
update_collision_candidates(q, w, body, delta_time, start_time) ==
    IF ~InMoving(w.moving, body) THEN q
    ELSE query_collisions_with_static_bodies(
             query_collisions_with_moving_bodies(q, w, body, delta_time,
                                                 start_time),
             w, body, delta_time, start_time)

\* heappop taking any entry of the list, not the least.
heappop_any(heap) == 1..Len(heap)

\* heapq.heappop: an entry of least toc; which one among equal tocs is left
\* to the order of the pairs.
heappop(heap) ==
    {i \in 1..Len(heap) : \A j \in 1..Len(heap) : RLe(heap[i].toc, heap[j].toc)}

\* heappop leaving the popped entry in the list.
RemoveAtKeeps(seq, i) == seq

\* heappop dropping, with the popped entry, the queued candidates of other
\* pairs that involve one of its bodies.
RemoveAtWithStale(seq, i) ==
    LET Fresh(c) == {c.pair.body_a, c.pair.body_b}
                       \cap {seq[i].pair.body_a, seq[i].pair.body_b} = {}
        rest == [k \in 1..(Len(seq) - 1) |->
                    IF k < i THEN seq[k] ELSE seq[k + 1]]
    IN  SelectSeq(rest, Fresh)

RemoveAt(seq, i) == SubSeq(seq, 1, i - 1) \o SubSeq(seq, i + 1, Len(seq))

(***************************************************************************)
(* The state of a World and of one call of World.update.                   *)
(***************************************************************************)
VARIABLES
    bodies,                  \* the bodies held by spatial_struct
    delta_time,              \* the argument of update
    pc,                      \* idle, predict, broadphase, resolve, commit, done
    idx,                     \* the position of the running for loop
    moving_bodies,           \* _moving_bodies
    sweept_bodies,           \* _sweept_bodies
    movement_spatial_struct, \* _movement_spatial_struct
    next_id,                 \* identity of the next swept proxy
    collision_candidates,    \* _collision_candidates
    current_time,            \* the local of __detect_collisions
    events,                  \* what the last step did to bodies, in order
    bodies0,                 \* the bodies when update was called
    toc_calls,               \* pairs handed to __push_to_collision_candidates
    popped,                  \* the candidates popped so far, in order
    resolved,                \* bodies that went through a physical response
    committed,               \* bodies advanced by delta_time at COMMIT
    callbacks                \* number of handle_collision calls so far

vars == <<bodies, delta_time, pc, idx, moving_bodies, sweept_bodies,
          movement_spatial_struct, next_id, collision_candidates,
          current_time, events, bodies0, toc_calls, popped, resolved,
          committed, callbacks>>

\* The step state as the private methods see it, with an empty log.
W == [bodies  |-> bodies,
      moving  |-> moving_bodies,
      sweept  |-> sweept_bodies,
      mstruct |-> movement_spatial_struct,
      next_id |-> next_id,
      log     |-> <<>>]

SetW(w) ==
    /\ bodies' = w.bodies
    /\ moving_bodies' = w.moving
    /\ sweept_bodies' = w.sweept
    /\ movement_spatial_struct' = w.mstruct
    /\ next_id' = w.next_id
    /\ events' = w.log

\* Every square root the solver takes on these bodies is rational.
ExactRoots(bs) ==
    \A a, b \in DOMAIN bs :
        a # b => \/ RLt(TocDelta(bs[a], bs[b]), R(0))
                 \/ HasExactSqrt(TocDelta(bs[a], bs[b]))

Init ==
    /\ bodies \in {bs \in Worlds : ExactRoots(bs)}
    /\ bodies0 = bodies
    /\ delta_time = R(0)
    /\ pc = "idle"
    /\ idx = 1
    /\ moving_bodies = <<>>
    /\ sweept_bodies = <<>>
    /\ movement_spatial_struct = {}
    /\ next_id = 1
    /\ collision_candidates = <<>>
    /\ current_time = R(0)
    /\ events = <<>>
    /\ toc_calls = <<>>
    /\ popped = <<>>
    /\ resolved = {}
    /\ committed = {}
    /\ callbacks = 0

\* update, lines 221-224: RESET.
Reset ==
    /\ pc = "idle"
    /\ \E dt \in DeltaTimes : delta_time' = dt
    /\ moving_bodies' = <<>>
    /\ sweept_bodies' = <<>>
    /\ movement_spatial_struct' = {}
    /\ collision_candidates' = <<>>
    /\ pc' = "predict"
    /\ idx' = 1
    /\ UNCHANGED <<bodies, next_id, current_time, events, bodies0, toc_calls,
                   popped, resolved, committed, callbacks>>

\* update, lines 225-226: one iteration of PREDICT.
Predict ==
    /\ pc = "predict"
    /\ idx <= NumBodies
    /\ SetW(predict_movement(W, idx, delta_time))
    /\ idx' = idx + 1
    /\ UNCHANGED <<delta_time, pc, collision_candidates, current_time,
                   bodies0, toc_calls, popped, resolved, committed, callbacks>>

PredictDone ==
    /\ pc = "predict"
    /\ idx > NumBodies
    /\ pc' = "broadphase"
    /\ idx' = 1
    /\ events' = <<>>
    /\ UNCHANGED <<bodies, delta_time, moving_bodies, sweept_bodies,
                   movement_spatial_struct, next_id, collision_candidates,
                   current_time, bodies0, toc_calls, popped, resolved,
                   committed, callbacks>>

\* update, lines 227-228: one iteration of BROADPHASE.
Broadphase ==
    /\ pc = "broadphase"
    /\ idx <= Len(moving_bodies)
    /\ LET q == update_collision_candidates(
                    [heap |-> collision_candidates, calls |-> toc_calls],
                    W, moving_bodies[idx].body, delta_time, R(0))
       IN  /\ collision_candidates' = q.heap
           /\ toc_calls' = q.calls
    /\ idx' = idx + 1
    /\ events' = <<>>
    /\ UNCHANGED <<bodies, delta_time, pc, moving_bodies, sweept_bodies,
                   movement_spatial_struct, next_id, current_time, bodies0,
                   popped, resolved, committed, callbacks>>

\* update, line 229: __detect_collisions starts with current_time = 0.
BroadphaseDone ==
    /\ pc = "broadphase"
    /\ idx > Len(moving_bodies)
    /\ pc' = "resolve"
    /\ current_time' = R(0)
    /\ events' = <<>>
    /\ UNCHANGED <<bodies, delta_time, idx, moving_bodies, sweept_bodies,
                   movement_spatial_struct, next_id, collision_candidates,
                   bodies0, toc_calls, popped, resolved, committed, callbacks>>

LogBodies(log, op) == {log[i].body : i \in {j \in 1..Len(log) : log[j].op = op}}

LogCount(log, op) == Cardinality({j \in 1..Len(log) : log[j].op = op})

\* __detect_collisions, lines 210-215: one iteration of RESOLVE.
Resolve ==
    /\ pc = "resolve"
    /\ collision_candidates # <<>>
    /\ \E i \in heappop(collision_candidates) :
          LET toc  == collision_candidates[i].toc
              pair == collision_candidates[i].pair
              w    == check_collision(W, pair.body_a, pair.body_b, toc,
                                      current_time, delta_time)
          IN  /\ SetW(w)
              /\ collision_candidates' = RemoveAt(collision_candidates, i)
              /\ current_time' = RAdd(current_time, toc)
              /\ popped' = Append(popped,
                               [toc |-> toc, pair |-> pair,
                                hit |-> NarrowPhase(W, pair.body_a,
                                                    pair.body_b, toc)])
              /\ resolved' = resolved \cup LogBodies(w.log, "update")
              /\ callbacks' = callbacks + LogCount(w.log, "handle_collision")
    /\ UNCHANGED <<delta_time, pc, idx, bodies0, toc_calls, committed>>

ResolveDone ==
    /\ pc = "resolve"
    /\ collision_candidates = <<>>
    /\ pc' = "commit"
    /\ idx' = 1
    /\ events' = <<>>
    /\ UNCHANGED <<bodies, delta_time, moving_bodies, sweept_bodies,
                   movement_spatial_struct, next_id, collision_candidates,
                   current_time, bodies0, toc_calls, popped, resolved,
                   committed, callbacks>>

\* update, lines 230-231: one iteration of COMMIT.
Commit ==
    /\ pc = "commit"
    /\ idx <= Len(moving_bodies)
    /\ SetW(UpdateBody(W, moving_bodies[idx].body, delta_time))
    /\ committed' = committed \cup {moving_bodies[idx].body}
    /\ idx' = idx + 1
    /\ UNCHANGED <<delta_time, pc, collision_candidates, current_time,
                   bodies0, toc_calls, popped, resolved, callbacks>>

CommitDone ==
    /\ pc = "commit"
    /\ idx > Len(moving_bodies)
    /\ pc' = "done"
    /\ events' = <<>>
    /\ UNCHANGED <<bodies, delta_time, idx, moving_bodies, sweept_bodies,
                   movement_spatial_struct, next_id, collision_candidates,
                   current_time, bodies0, toc_calls, popped, resolved,
                   committed, callbacks>>

Next ==
    \/ Reset
    \/ Predict
    \/ PredictDone
    \/ Broadphase
    \/ BroadphaseDone
    \/ Resolve
    \/ ResolveDone
    \/ Commit
    \/ CommitDone

Spec == Init /\ [][Next]_vars

(***************************************************************************)
(* Properties.                                                             *)
(***************************************************************************)
Last(seq) == seq[Len(seq)]

Callback(body, other) ==
    [op |-> "handle_collision", body |-> body, other |-> other]

\* The step taken is one iteration of RESOLVE.
Pops == Len(popped') = Len(popped) + 1

BothTangible(pair) ==
    bodies0[pair.body_a].is_tangible /\ bodies0[pair.body_b].is_tangible

\* C1: candidates are popped in nondecreasing time-of-impact order: of two
\* candidates processed in a tick, the earlier one has the lesser or equal
\* time of impact.
C1_PopOrder ==
    \A i, j \in 1..Len(popped) :
        i < j => RLe(popped[i].toc, popped[j].toc)

\* RESOLVE ended after popping three candidates or more, the third
\* strictly later than the first.
C1_Witness ==
    /\ Len(popped) >= 3
    /\ RLt(popped[1].toc, popped[3].toc)
    /\ pc = "commit"

\* C2: after BROADPHASE the queue never holds two entries for the same
\* unordered pair of bodies.
C2_PairOnce ==
    \A i, j \in 1..Len(collision_candidates) :
        i # j => ~PairEq(collision_candidates[i].pair,
                         collision_candidates[j].pair)

\* C3: a body that took part in a physically resolved contact during
\* RESOLVE is not advanced by the full tick duration at COMMIT.
C3_ResolvedNotCommitted == committed \cap resolved = {}

\* C4: a popped candidate that passes the narrow phase with at least one
\* intangible body gets both callbacks and no physical response: no speed
\* or position changes and no moving record is removed or replaced.
C4_IntangibleNotifyOnly ==
    [][(Pops /\ Last(popped').hit /\ ~BothTangible(Last(popped').pair))
        => LET pair == Last(popped').pair
           IN  /\ bodies' = bodies
               /\ moving_bodies' = moving_bodies
               /\ sweept_bodies' = sweept_bodies
               /\ movement_spatial_struct' = movement_spatial_struct
               /\ events' = <<Callback(pair.body_a, pair.body_b),
                              Callback(pair.body_b, pair.body_a)>>
               /\ callbacks' = callbacks + 2]_vars

\* A contact of a moving tangible body with an intangible one was notified.
C4_Witness ==
    /\ pc = "resolve"
    /\ popped # <<>>
    /\ Last(popped).hit
    /\ ~BothTangible(Last(popped).pair)
    /\ bodies0[Last(popped).pair.body_a].is_tangible
    /\ InMoving(moving_bodies, Last(popped).pair.body_a)
    /\ Len(events) = 2

\* C5: a popped candidate that passes the narrow phase has the callback
\* invoked exactly once on each of its two bodies, with the other body as
\* argument and after the physical response; one that fails the narrow
\* phase has no callback invoked.
C5_CallbackOncePerSide ==
    [][Pops =>
        LET pair == Last(popped').pair
            n    == Len(events')
        IN  IF Last(popped').hit
            THEN /\ n >= 2
                 /\ events'[n - 1] = Callback(pair.body_a, pair.body_b)
                 /\ events'[n] = Callback(pair.body_b, pair.body_a)
                 /\ LogCount(events', "handle_collision") = 2
                 /\ callbacks' = callbacks + 2
            ELSE /\ LogCount(events', "handle_collision") = 0
                 /\ callbacks' = callbacks]_vars

\* A physically resolved contact was notified after its response, and a
\* candidate that failed the narrow phase was dropped silently.
C5_Witness ==
    /\ pc = "resolve"
    /\ Len(popped) >= 2
    /\ popped[1].hit
    /\ BothTangible(popped[1].pair)
    /\ ~Last(popped).hit
    /\ callbacks = 2

SweptOwners == {sweept_bodies[k] : k \in DOMAIN sweept_bodies}

\* C6: a static body has no moving record and no swept proxy at any point
\* of a tick, also after a resolved contact it took part in.
C6_StaticNeverMoving ==
    \A b \in Bodies :
        bodies[b].is_static =>
            /\ ~InMoving(moving_bodies, b)
            /\ b \notin SweptOwners

\* A static body took part in a physically resolved contact, and a static
\* body that has a speed went through PREDICT.
C6_Witness ==
    /\ \E b \in resolved : bodies[b].is_static
    /\ \E b \in Bodies : bodies[b].is_static /\ bodies[b].speed # P(0, 0)
    /\ pc = "done"

\* No non-static body has a predicted end-of-tick position other than its
\* current one.
ZeroMoving ==
    \A b \in Bodies :
        \/ bodies0[b].is_static
        \/ predict_position(bodies0[b], delta_time) = bodies0[b].position

\* C7: a tick with zero moving bodies leaves the candidate queue empty,
\* invokes no callback and changes no body's position or speed.
C7_ZeroMovingNoChange ==
    (pc # "idle" /\ ZeroMoving) =>
        /\ collision_candidates = <<>>
        /\ callbacks = 0
        /\ bodies = bodies0

\* A tick of positive duration over static bodies and bodies at rest ended;
\* one of the static bodies has a speed, one body at rest is not static.
C7_Witness ==
    /\ pc = "done"
    /\ ZeroMoving
    /\ delta_time # R(0)
    /\ \E b \in Bodies : bodies0[b].is_static /\ bodies0[b].speed # P(0, 0)
    /\ \E b \in Bodies : ~bodies0[b].is_static

\* C8: World.update never changes the speed of a static body.
C8_StaticSpeedKept ==
    \A b \in Bodies :
        bodies0[b].is_static => bodies[b].speed = bodies0[b].speed

\* A static body took part in a physically resolved contact with a body
\* whose speed differs from its own.
C8_Witness ==
    /\ pc = "resolve"
    /\ popped # <<>>
    /\ Last(popped).hit
    /\ BothTangible(Last(popped).pair)
    /\ bodies0[Last(popped).pair.body_b].is_static
    /\ Last(popped).pair.body_b \in resolved
    /\ Len(events) > 2

EqualMassDynamic(pair) ==
    /\ BothTangible(pair)
    /\ ~bodies0[pair.body_a].is_static
    /\ ~bodies0[pair.body_b].is_static
    /\ bodies0[pair.body_a].mass = bodies0[pair.body_b].mass

\* C9: a resolved contact of two tangible non-static bodies of equal mass
\* gives each body the other's speed from before the contact.
C9_EqualMassSwap ==
    [][(Pops /\ Last(popped').hit /\ EqualMassDynamic(Last(popped').pair))
        => LET pair == Last(popped').pair
           IN  /\ bodies'[pair.body_a].speed = bodies[pair.body_b].speed
               /\ bodies'[pair.body_b].speed = bodies[pair.body_a].speed]_vars

\* Two equal-mass bodies that met head-on at opposite speeds of equal
\* magnitude have swapped them.
C9_Witness ==
    /\ Len(popped) = 1
    /\ popped[1].hit
    /\ EqualMassDynamic(popped[1].pair)
    /\ LET a == popped[1].pair.body_a
           b == popped[1].pair.body_b
       IN  /\ bodies0[a].speed # P(0, 0)
           /\ bodies0[a].speed = scalar_mult(bodies0[b].speed, R(-1))
           /\ bodies[a].speed = bodies0[b].speed
           /\ bodies[b].speed = bodies0[a].speed

\* C10: for two bodies of identical speed the solver performs no division
\* by zero.
C10_NoDivisionByZero ==
    \A i \in 1..Len(toc_calls) :
        LET a == bodies0[toc_calls[i].body_a]
            b == bodies0[toc_calls[i].body_b]
        IN  a.speed = b.speed => ~DividesByZero(a, b)

(***************************************************************************)
(* The time-of-impact solver on its own: two circular bodies drawn from    *)
(* SolverInputs, and one call of World.__time_of_collision on them.        *)
(***************************************************************************)
SolverPositions == {P(0, 0), P(20, 0), P(8, 0), P(12, 16), P(0, 30)}

SolverSpeeds == {P(0, 0), P(5, 0), P(-5, 0), P(3, 4), P(-3, -4)}

SolverInputs ==
    {B(pos, spd, 1, 5, FALSE, TRUE) :
        pos \in SolverPositions, spd \in SolverSpeeds}

SolverInit ==
    /\ bodies \in [1..2 -> SolverInputs]
    /\ bodies0 = bodies
    /\ delta_time = R(0)
    /\ pc = "solver"
    /\ idx = 1
    /\ moving_bodies = <<>>
    /\ sweept_bodies = <<>>
    /\ movement_spatial_struct = {}
    /\ next_id = 1
    /\ collision_candidates = <<>>
    /\ current_time = R(0)
    /\ events = <<>>
    /\ toc_calls = <<>>
    /\ popped = <<>>
    /\ resolved = {}
    /\ committed = {}
    /\ callbacks = 0

\* toc = self.__time_of_collision(pair.body_a, pair.body_b), line 76.
SolverCall ==
    /\ pc = "solver"
    /\ \E a, b \in DOMAIN bodies :
          /\ a # b
          /\ ExactRoots(bodies)
          /\ events' = <<[op    |-> "time_of_collision",
                          body  |-> a,
                          other |-> b,
                          toc   |-> time_of_collision(bodies[a], bodies[b])]>>
    /\ pc' = "solved"
    /\ UNCHANGED <<bodies, delta_time, idx, moving_bodies, sweept_bodies,
                   movement_spatial_struct, next_id, collision_candidates,
                   current_time, bodies0, toc_calls, popped, resolved,
                   committed, callbacks>>

SolverNext == SolverCall

SolverSpec == SolverInit /\ [][SolverNext]_vars

\* The two circles do not overlap at t = 0: the centers are further apart
\* than the sum of the radii.
ApartAtZero(a, b) == RLt(R(0), TocC(a, b))

\* The distance of the centers grows at t = 0.
MovingApart(a, b) == RLt(R(0), TocB(a, b))

SolverCase(a, b) ==
    /\ ApartAtZero(a, b)
    /\ MovingApart(a, b) \/ a.speed = b.speed

Dot(p, q) == RAdd(RMul(p.x, q.x), RMul(p.y, q.y))

Cross(p, q) == RSub(RMul(p.x, q.y), RMul(p.y, q.x))

HeadOn(a, b) ==
    LET dp == VSub(b.position, a.position)
    IN  /\ a.radius = b.radius
        /\ ApartAtZero(a, b)
        /\ Cross(dp, a.speed) = R(0) /\ RLt(R(0), Dot(dp, a.speed))
        /\ Cross(dp, b.speed) = R(0) /\ RLt(Dot(dp, b.speed), R(0))
        /\ HasExactSqrt(Dot(dp, dp))

Gap(a, b) ==
    LET dp == VSub(b.position, a.position)
    IN  RSub(RSqrt(Dot(dp, dp)), R(a.radius + b.radius))

ClosingSpeed(a, b) ==
    LET dv == VSub(a.speed, b.speed)
    IN  RSqrt(Dot(dv, dv))

\* C12: for two circles of equal radius with a gap g > 0 between their
\* surfaces that move directly towards each other with closing speed
\* s > 0, the solver returns g / s.
C12_GapOverSpeed ==
    pc = "solved" =>
        LET a == bodies[events[1].body]
            b == bodies[events[1].other]
        IN  HeadOn(a, b) =>
               events[1].toc = RDiv(Gap(a, b), ClosingSpeed(a, b))

\* The solver was called on circles of radius 5 with centers 20 apart on a
\* slanted line and closing speed 10, and returned 1.
C12_Witness ==
    /\ pc = "solved"
    /\ LET a == bodies[events[1].body]
           b == bodies[events[1].other]
       IN  /\ HeadOn(a, b)
           /\ a.radius = 5
           /\ a.position.y # b.position.y
           /\ Gap(a, b) = R(10)
           /\ ClosingSpeed(a, b) = R(10)
    /\ events[1].toc = R(1)

(***************************************************************************)
(* update is synchronous and single-threaded: a step that can be taken is  *)
(* taken.  NextBody and NextCandidate are what one iteration of a loop     *)
(* does to the loop's own control state (the index of a for loop, the heap *)
(* of the while loop): NextBody is enabled exactly when Predict,           *)
(* Broadphase or Commit is, NextCandidate exactly when Resolve is, and     *)
(* under Spec their steps are exactly the steps of those actions.          *)
(***************************************************************************)
NextBody ==
    /\ \/ pc = "predict" /\ idx <= NumBodies
       \/ pc \in {"broadphase", "commit"} /\ idx <= Len(moving_bodies)
    /\ idx' = idx + 1

NextCandidate ==
    /\ pc = "resolve"
    /\ \E i \in 1..Len(collision_candidates) :
          collision_candidates' = RemoveAt(collision_candidates, i)

FairSpec ==
    /\ Spec
    /\ WF_pc(Reset \/ PredictDone \/ BroadphaseDone \/ ResolveDone
                \/ CommitDone)
    /\ WF_idx(NextBody)
    /\ WF_collision_candidates(NextCandidate)

InRange(toc, dt) == RLe(R(0), toc) /\ RLe(toc, dt)

\* The number of candidates BROADPHASE has enqueued, from the calls made.
Enqueued ==
    Cardinality({i \in 1..Len(toc_calls) :
        InRange(time_of_collision(bodies0[toc_calls[i].body_a],
                                  bodies0[toc_calls[i].body_b]),
                delta_time)})

\* C13: every call of World.update terminates: RESOLVE runs no more
\* iterations than BROADPHASE enqueued candidates, and the tick reaches
\* COMMIT and returns.
C13_Terminates ==
    /\ <>(pc = "done")
    /\ [](pc \in {"resolve", "commit", "done"} => Len(popped) <= Enqueued)
    /\ [](pc \in {"commit", "done"} => Len(popped) = Enqueued)

\* A tick that resolved a zero-time contact physically, among three
\* candidates or more, has returned.
C13_Witness ==
    /\ pc = "done"
    /\ Len(popped) >= 3
    /\ \E i \in 1..Len(popped) :
          /\ popped[i].toc = R(0)
          /\ popped[i].hit
          /\ BothTangible(popped[i].pair)

\* The step taken resolves a contact of two tangible bodies physically.
ResolvesPhysically ==
    /\ Pops
    /\ Last(popped').hit
    /\ BothTangible(Last(popped').pair)

\* C14: when a both-tangible contact with time of impact t is resolved,
\* each of the two bodies is advanced (Body.update) by exactly t, or by t
\* minus the fixed epsilon when t is 0, before the velocity exchange.
C14_AdvancedByToc ==
    [][ResolvesPhysically =>
        LET pair == Last(popped').pair
            toc  == Last(popped').toc
            span == RSub(toc, TimeDiff(toc))
        IN  /\ Len(events') >= 3
            /\ events'[1] = [op |-> "update", body |-> pair.body_a,
                             dt |-> span]
            /\ events'[2] = [op |-> "update", body |-> pair.body_b,
                             dt |-> span]
            /\ events'[3].op = "forces"]_vars

\* C15: when a both-tangible contact with time of impact t is resolved in
\* a tick of duration D, the two bodies are re-predicted for a remaining
\* time of exactly D - t, whatever candidates were processed before.
C15_RemainingTime ==
    [][ResolvesPhysically =>
        \A k \in 1..Len(events') :
            events'[k].op = "predict"
                => events'[k].dt = RSub(delta_time, Last(popped').toc)]_vars

\* The swept proxies of the current moving records.
RecordProxies ==
    {moving_bodies[i].sweept_body : i \in 1..Len(moving_bodies)}

\* C16: at every point within a tick each body has at most one moving
\* record and one swept proxy, the swept-body table maps exactly the swept
\* proxies of the current moving records back to their bodies, and the
\* Movement Index contains exactly those swept proxies.
C16_StructuresAgree ==
    /\ \A i, j \in 1..Len(moving_bodies) :
          i # j => /\ moving_bodies[i].body # moving_bodies[j].body
                   /\ moving_bodies[i].sweept_body.id
                         # moving_bodies[j].sweept_body.id
    /\ DOMAIN sweept_bodies = {sb.id : sb \in RecordProxies}
    /\ \A i \in 1..Len(moving_bodies) :
          sweept_bodies[moving_bodies[i].sweept_body.id]
             = moving_bodies[i].body
    /\ movement_spatial_struct = RecordProxies
    /\ Cardinality(SweptOwners) = Len(moving_bodies)

\* After a physically resolved contact one of its bodies has a new moving
\* record, the other has none, and a third body keeps the record PREDICT
\* gave it.
C16_Witness ==
    /\ pc = "resolve"
    /\ popped # <<>>
    /\ Last(popped).hit
    /\ BothTangible(Last(popped).pair)
    /\ \E i \in 1..Len(moving_bodies) :
          /\ moving_bodies[i].body \in resolved
          /\ moving_bodies[i].sweept_body.id > NumBodies
    /\ \E b \in resolved : ~InMoving(moving_bodies, b)
    /\ \E i \in 1..Len(moving_bodies) : moving_bodies[i].body \notin resolved

\* C17: a popped candidate that fails the narrow phase is discarded with
\* no further action: every body's position and velocity, the moving
\* records, the swept-body table, the Movement Index and the resolver's
\* elapsed time are the same as before the pop.
C17_DiscardNoChange ==
    [][(Pops /\ ~Last(popped').hit) =>
        /\ bodies' = bodies
        /\ moving_bodies' = moving_bodies
        /\ sweept_bodies' = sweept_bodies
        /\ movement_spatial_struct' = movement_spatial_struct
        /\ current_time' = current_time]_vars

\* The bodies of a pair.
PairBodies(pair) == {pair.body_a, pair.body_b}

\* C18: resolving a contact never adds a candidate to the queue: during
\* RESOLVE the queue shrinks by exactly the popped candidate per iteration
\* and the candidates queued for other pairs are left exactly as they were,
\* also when they involve a body the resolved contact just changed.
C18_OnlyPoppedLeaves ==
    [][Pops =>
        /\ Len(collision_candidates') = Len(collision_candidates) - 1
        /\ \E i \in 1..Len(collision_candidates) :
              /\ collision_candidates[i].toc = Last(popped').toc
              /\ collision_candidates[i].pair = Last(popped').pair
              /\ \A k \in 1..Len(collision_candidates') :
                    collision_candidates'[k]
                       = IF k < i THEN collision_candidates[k]
                                  ELSE collision_candidates[k + 1]]_vars

\* A contact was resolved physically and changed the speed of a body that
\* a candidate still queued for another pair involves.
C18_Witness ==
    /\ pc = "resolve"
    /\ popped # <<>>
    /\ Last(popped).hit
    /\ BothTangible(Last(popped).pair)
    /\ \E k \in 1..Len(collision_candidates) :
          /\ ~PairEq(collision_candidates[k].pair, Last(popped).pair)
          /\ \E b \in PairBodies(collision_candidates[k].pair)
                         \cap PairBodies(Last(popped).pair) :
                bodies[b].speed # bodies0[b].speed

\* The solver's result for a pair handed to
\* __push_to_collision_candidates during BROADPHASE.
SolverResult(pair) ==
    time_of_collision(bodies0[pair.body_a], bodies0[pair.body_b])

\* C19: every candidate held in the queue has a time of impact t with
\* 0 <= t <= tick duration: a pair whose solver result is negative or
\* greater than the tick duration is never enqueued.
C19_QueuedInRange ==
    /\ \A k \in 1..Len(collision_candidates) :
          InRange(collision_candidates[k].toc, delta_time)
    /\ \A i \in 1..Len(toc_calls) :
          (\/ RLt(SolverResult(toc_calls[i]), R(0))
           \/ RLt(delta_time, SolverResult(toc_calls[i])))
             => \A k \in 1..Len(collision_candidates) :
                   ~PairEq(collision_candidates[k].pair, toc_calls[i])

\* BROADPHASE handed over a pair with a negative result and a pair with a
\* result beyond the tick, and queued a candidate.
C19_Witness ==
    /\ pc = "resolve"
    /\ popped = <<>>
    /\ \E i \in 1..Len(toc_calls) : RLt(SolverResult(toc_calls[i]), R(0))
    /\ \E i \in 1..Len(toc_calls) : RLt(delta_time, SolverResult(toc_calls[i]))
    /\ collision_candidates # <<>>

\* C20: throughout RESOLVE the elapsed time the resolver keeps stays
\* within [0, tick duration], so the remaining time handed to re-prediction
\* is never negative and no body is re-predicted or advanced for a span
\* beyond the end of the tick.
C20_ElapsedWithinTick ==
    pc = "resolve" =>
        /\ RLe(R(0), current_time)
        /\ RLe(current_time, delta_time)
        /\ \A k \in 1..Len(events) :
              /\ events[k].op = "predict" => RLe(R(0), events[k].dt)
              /\ events[k].op \in {"predict", "update"}
                    => RLe(events[k].dt, delta_time)

=============================================================================
